---- MODULE Spec2Model ----
(***************************************************************************)
(* GetExecutableDirectory (src/main.cpp): the directory of the running     *)
(* executable on OpenBSD, found by verifying candidate paths built from    *)
(* argv[0], PATH, a hardcoded directory list, PWD, getcwd and `_` against  *)
(* the (device, inode) of the kernel's text-segment file record.           *)
(*                                                                         *)
(* The program is sequential.  Its inputs (kernel records, environment     *)
(* variables, filesystem) are chosen in Init and never change; the actions *)
(* are the steps of GetExecutableDirectory and of its verifier is_exe.     *)
(* C++ strings are TLA+ strings; positions are 0-based as in the source.   *)
(***************************************************************************)
EXTENDS Integers, Sequences, FiniteSets, TLC

\* ------------------------------------------------------------------ bounds

\* How many times in succession the process calls GetExecutableDirectory.
MaxCalls == 2

\* ---------------------------------------------------------------- strings

\* std::string::npos: larger than every position of a string.
npos == 2147483647

\* s[i], 0-based.
At(s, i) == SubSeq(s, i + 1, i + 1)

\* std::string::substr(pos, n).
substr(s, pos, n) == SubSeq(s, pos + 1, pos + n)

\* std::string::substr(pos): to the end.
substr_from(s, pos) == SubSeq(s, pos + 1, Len(s))

\* std::string::find(c): the first position of c, or npos.
find(s, c) ==
  LET hits == {i \in 0..(Len(s) - 1) : At(s, i) = c}
  IN IF hits = {} THEN npos ELSE CHOOSE i \in hits : \A j \in hits : i <= j

\* std::string::find_last_of(c): the last position of c, or npos.
find_last_of(s, c) ==
  LET hits == {i \in 0..(Len(s) - 1) : At(s, i) = c}
  IN IF hits = {} THEN npos ELSE CHOOSE i \in hits : \A j \in hits : i >= j

\* std::getline(sstr, tmp, ':') on a stream whose unread part is `rest`
\* (eof: the stream has been read to its end). It fails when nothing is left
\* to read; otherwise it extracts up to the next ':' (consumed) or the end.
getline(rest, eof) ==
  IF eof \/ rest = "" THEN [ok |-> FALSE, tmp |-> "", rest |-> "", eof |-> TRUE]
  ELSE LET c == find(rest, ":")
       IN IF c = npos
          THEN [ok |-> TRUE, tmp |-> rest, rest |-> "", eof |-> TRUE]
          ELSE [ok |-> TRUE, tmp |-> substr(rest, 0, c),
                rest |-> substr_from(rest, c + 1), eof |-> FALSE]

\* ------------------------------------------------------------------ errno

ENOENT == 2
ENOMEM == 12
ENOTDIR == 20
ELOOP == 62

\* -------------------------------------------------------------- mode bits

\* st_mode as the set of its bit positions; `mode & mask` is non-zero iff the
\* two sets meet.
S_IXUSR == {6}
S_IFREG == {15}
S_IFDIR == {14}
S_IFSOCK == {14, 15}
ModeAnd(mode, mask) == (mode \cap mask) # {}

\* ------------------------------------------------------------- filesystem

\* The kernel's limit on symbolic links followed in one lookup.
SYMLOOP_MAX == 32

\* The process's working directory (canonical).
CWD == "/home/u/proj"

NoNode == [kind |-> "none", st_dev |-> 0, st_ino |-> 0, st_mode |-> {}, target |-> ""]
DirNode == [kind |-> "dir", st_dev |-> 1, st_ino |-> 2, st_mode |-> S_IFDIR \cup S_IXUSR, target |-> ""]
File(dev, ino, mode) == [kind |-> "file", st_dev |-> dev, st_ino |-> ino, st_mode |-> mode, target |-> ""]
Link(to) == [kind |-> "link", st_dev |-> 0, st_ino |-> 0, st_mode |-> {}, target |-> to]

\* The running binary's file, another program, a non-executable file, a
\* socket with the execute bit, and a file with the binary's inode number on
\* another device.
TextFile == File(1, 7, S_IFREG \cup S_IXUSR)
OtherExe == File(1, 8, S_IFREG \cup S_IXUSR)
PlainFile == File(1, 9, S_IFREG)
Socket == File(1, 10, S_IFSOCK \cup S_IXUSR)
OtherDev == File(2, 7, S_IFREG \cup S_IXUSR)

Dirs == {"/usr", "/usr/bin", "/bin", "/usr/sbin", "/sbin", "/usr/X11R6",
         "/usr/X11R6/bin", "/usr/local", "/usr/local/bin", "/usr/local/sbin",
         "/home", "/home/u", "/home/u/bin", "/home/u/proj", "/opt", "/opt/app"}

\* The filesystems the process may run on: canonical path -> file or link.
Disks ==
  [ local   |-> ("/usr/local/bin/app" :> TextFile) @@ ("/usr/bin/app" :> OtherExe)
                @@ ("/bin/app" :> DirNode) @@ ("/sbin/app" :> PlainFile),
    link    |-> ("/usr/local/bin/app" :> Link("/opt/app/app")) @@ ("/opt/app/app" :> TextFile)
                @@ ("/usr/bin/app" :> OtherDev),
    proj    |-> ("/home/u/proj/app" :> TextFile) @@ ("/usr/bin/app" :> OtherExe)
                @@ ("/usr/sbin/app" :> Socket),
    renamed |-> ("/usr/local/bin/real" :> TextFile) @@ ("/usr/bin/app" :> OtherDev),
    homebin |-> ("/home/u/bin/app" :> TextFile) @@ ("/usr/bin/app" :> OtherExe),
    gone    |-> ("/usr/local/bin/app" :> OtherExe) @@ ("/usr/bin/app" :> OtherDev)
                @@ ("/usr/sbin/app" :> PlainFile) ]

Node(disk, p) ==
  IF p \in DOMAIN Disks[disk] THEN Disks[disk][p]
  ELSE IF p \in Dirs THEN DirNode
  ELSE NoNode

\* The directory above a canonical directory ("" is the root).
Parent(cur) ==
  IF cur = "" THEN "" ELSE substr(cur, 0, find_last_of(cur, "/"))

Failed(e) == [err |-> e, path |-> "", node |-> NoNode]

\* A path without its leading '/' characters.
SkipSlashes(rest) ==
  LET names == {i \in 0..(Len(rest) - 1) : At(rest, i) # "/"}
  IN IF names = {} THEN ""
     ELSE substr_from(rest, CHOOSE i \in names : \A j \in names : i <= j)

\* Path lookup as stat(2) and realpath(3) do it: component by component from
\* the canonical directory `cur`, following symbolic links.
RECURSIVE Walk(_, _, _, _)
Walk(disk, cur, path, depth) ==
  LET rest == SkipSlashes(path)
      s == find(rest, "/")
      comp == IF s = npos THEN rest ELSE substr(rest, 0, s)
      more == IF s = npos THEN "" ELSE substr_from(rest, s)
      p == cur \o "/" \o comp
      nd == Node(disk, p)
  IN CASE rest = "" -> [err |-> 0, path |-> IF cur = "" THEN "/" ELSE cur, node |-> DirNode]
       [] rest # "" /\ comp = "." -> Walk(disk, cur, more, depth)
       [] rest # "" /\ comp = ".." -> Walk(disk, Parent(cur), more, depth)
       [] rest # "" /\ comp \notin {".", ".."} /\ nd.kind = "none" -> Failed(ENOENT)
       [] rest # "" /\ comp \notin {".", ".."} /\ nd.kind = "dir" -> Walk(disk, p, more, depth)
       [] rest # "" /\ comp \notin {".", ".."} /\ nd.kind = "file" ->
            IF more = "" THEN [err |-> 0, path |-> p, node |-> nd]
            ELSE Failed(ENOTDIR)
       [] rest # "" /\ comp \notin {".", ".."} /\ nd.kind = "link" ->
            IF depth = 0 THEN Failed(ELOOP)
            ELSE Walk(disk, IF At(nd.target, 0) = "/" THEN "" ELSE cur,
                      nd.target \o more, depth - 1)

Lookup(disk, p) ==
  IF p = "" THEN Failed(ENOENT)
  ELSE IF At(p, 0) = "/" THEN Walk(disk, "", p, SYMLOOP_MAX)
  ELSE Walk(disk, CWD, p, SYMLOOP_MAX)

\* stat(exe.c_str(), &st): err = 0 on success, with st in node.
stat(disk, p) == Lookup(disk, p)

\* realpath(exe.c_str(), buffer): err = 0 on success, with buffer in path.
realpath(disk, p) == Lookup(disk, p)

\* ----------------------------------------------------------------- kernel

KERN_FILE_TEXT == -1
KERN_FILE_CDIR == -2

\* struct kinfo_file, the fields is_exe reads.
KFile(fd, fsid, fileid, comm) ==
  [fd_fd |-> fd, va_fsid |-> fsid, va_fileid |-> fileid, p_comm |-> comm]

TextRec(comm) == KFile(KERN_FILE_TEXT, TextFile.st_dev, TextFile.st_ino, comm)
CdirRec(comm) == KFile(KERN_FILE_CDIR, DirNode.st_dev, DirNode.st_ino, comm)
FdRec(comm) == KFile(0, 1, 11, comm)

\* What kvm_getfiles can return for the process: the text record first (as
\* the kernel lists it), after the working-directory record, after a record
\* of an open descriptor, or no text record at all.
KifOrders == {"text_first", "cdir_first", "fd_first", "no_text"}
Kif(order, comm) ==
  CASE order = "text_first" -> <<TextRec(comm), CdirRec(comm), FdRec(comm)>>
    [] order = "cdir_first" -> <<CdirRec(comm), TextRec(comm), FdRec(comm)>>
    [] order = "fd_first" -> <<FdRec(comm), TextRec(comm)>>
    [] order = "no_text" -> <<CdirRec(comm), FdRec(comm)>>

\* ------------------------------------------------------------ environment

\* environ: <<>> for an unset variable, <<value>> for a set one.
Environ(path, home, pwd, uscore) ==
  ("PATH" :> path) @@ ("HOME" :> home) @@ ("PWD" :> pwd) @@ ("_" :> uscore)

Argvs == {<<>>, <<"">>, <<"/usr/local/bin/app">>, <<"app", "-v">>, <<"app:1">>, <<"./app">>}
PathValues == {<<>>, <<"/usr/bin:/usr/local/bin">>}
HomeValues == {<<>>, <<"/home/u">>, <<"/home/u:x">>}
PwdValues == {<<>>, <<"/home/u/proj">>}
UscoreValues == {<<>>, <<"/usr/local/bin/app">>, <<"app">>}
Comms == {"app", "real"}

\* A process: what the kernel, environ and the filesystem hold for it.
\* kvm: "ok", "fails" (kvm_openfiles always fails) or "verifier_fails" (it
\* fails in is_exe only); getprocs, getfiles, getcwd: whether the call succeeds.
Process(argv, path, home, pwd, uscore, getcwd, disk, kvm, getprocs, getfiles, order, comm) ==
  [argv |-> argv, getprocs |-> getprocs, vars |-> Environ(path, home, pwd, uscore),
   getcwd |-> getcwd, disk |-> disk, kvm |-> kvm, getfiles |-> getfiles,
   kif |-> Kif(order, comm)]

\* Processes whose kernel queries all succeed and list the text record first.
HealthyEnvs ==
  { Process(a, p, h, w, u, TRUE, d, "ok", TRUE, TRUE, "text_first", m) :
      a \in Argvs, p \in PathValues, h \in {<<>>, <<"/home/u">>}, w \in PwdValues,
      u \in UscoreValues, d \in DOMAIN Disks, m \in Comms }

\* The same with a HOME that holds a ':'.
SplitHomeEnvs ==
  { Process(a, p, <<"/home/u:x">>, <<>>, <<>>, TRUE, d, "ok", TRUE, TRUE, "text_first", "app") :
      a \in {<<"app", "-v">>, <<"app:1">>}, p \in PathValues, d \in DOMAIN Disks }

\* The same with a failing getcwd.
NoCwdEnvs ==
  { Process(a, <<>>, <<>>, w, u, FALSE, d, "ok", TRUE, TRUE, "text_first", "app") :
      a \in Argvs, w \in PwdValues, u \in {<<>>, <<"app">>}, d \in {"local", "proj"} }

\* Processes with a failing kernel query, or another order of file records.
DegradedEnvs ==
  { Process(a, p, <<"/home/u">>, <<"/home/u/proj">>, u, TRUE, "local", "ok", TRUE, TRUE, o, "app") :
      a \in Argvs, p \in PathValues, u \in UscoreValues, o \in KifOrders \ {"text_first"} }
  \cup
  { Process(a, p, <<"/home/u">>, <<"/home/u/proj">>, u, TRUE, "local", k, TRUE, gf, "text_first", "app") :
      a \in Argvs, p \in PathValues, u \in UscoreValues, k \in {"ok", "verifier_fails"},
      gf \in BOOLEAN }
  \cup
  { Process(a, <<>>, <<"/home/u">>, <<"/home/u/proj">>, u, TRUE, "local", k, gp, TRUE, "text_first", "app") :
      a \in {<<>>, <<"app", "-v">>}, u \in UscoreValues, k \in {"ok", "fails"}, gp \in BOOLEAN }

\* Processes whose PWD no longer names the working directory.
StalePwdEnvs ==
  { Process(a, <<>>, <<>>, <<"/home/u">>, <<>>, TRUE, d, "ok", TRUE, TRUE, "text_first", "app") :
      a \in {<<"./app">>, <<"app", "-v">>}, d \in {"local", "proj"} }

\* Processes whose argv[0] holds a ':' before its first '/'.
ColonEnvs ==
  { Process(<<"app:1/x">>, p, <<>>, <<>>, <<>>, TRUE, d, "ok", TRUE, TRUE, "text_first", "app") :
      p \in PathValues, d \in {"local", "proj"} }

Envs == HealthyEnvs \cup SplitHomeEnvs \cup NoCwdEnvs \cup DegradedEnvs \cup StalePwdEnvs
          \cup ColonEnvs

\* ------------------------------------------------------------------ state

VARIABLES
  env,      \* the process's inputs: kernel records, environ, filesystem
  pc,       \* where the process is in GetExecutableDirectory / is_exe
  g,        \* the locals of GetExecutableDirectory
  v,        \* the locals of the running is_exe call
  errno,    \* the C library's errno
  handles,  \* number of kernel handles open (kvm_openfiles without kvm_close)
  double_close, \* history: kvm_close was called on a handle that was not open
  probes,   \* history: the candidates passed to is_exe in this call, in order
  gotos,    \* history: backward gotos taken (v_fallback: in this is_exe call;
            \* retry, fallback: in this call of GetExecutableDirectory) and
            \* calls made in this call (getenv_uscore: getenv("_"); getcwd)
  steps,    \* history: the steps taken in this call of GetExecutableDirectory
  entry_errno, \* history: errno when this call of GetExecutableDirectory began
  results   \* history: one record per finished call of GetExecutableDirectory

vars == <<env, pc, g, v, errno, handles, double_close, probes, gotos, steps,
          entry_errno, results>>

cppstr_getenv(name) == IF env.vars[name] = <<>> THEN "" ELSE env.vars[name][1]

\* The locals of GetExecutableDirectory as declared at lines 47 and 87-91
\* (kd: "null", "open" or "closed"; stage: history, which list penv holds,
\* "path" for PATH and "list" for the hardcoded one).
GLocals ==
  [path |-> "", buffer |-> <<>>, error |-> FALSE, retried |-> FALSE, argv0 |-> "",
   penv |-> "", sstr |-> "", eof |-> TRUE, tmp |-> "", slash_pos |-> npos,
   colon_pos |-> npos, kd |-> "null", stage |-> ""]

\* The locals of is_exe as declared at lines 49-53 (i: the index of the text
\* record, 0 before it is found; ret: where the call returns to).
VLocals(exe, ret) ==
  [exe |-> exe, res |-> "", error |-> FALSE, kd |-> "null", i |-> 0, ret |-> ret,
   checks |-> 0]

NoGotos == [v_fallback |-> 0, retry |-> 0, fallback |-> 0, getenv_uscore |-> 0, getcwd |-> 0]

Init ==
  /\ env \in Envs
  /\ pc = "idle"
  /\ g = GLocals
  /\ v = VLocals("", "idle")
  /\ errno = 0
  /\ handles = 0
  /\ double_close = FALSE
  /\ probes = <<>>
  /\ gotos = NoGotos
  /\ steps = 0
  /\ entry_errno = 0
  /\ results = <<>>

\* ------------------------------------------------------- is_exe, the verifier

\* TextIndex looking at kif[0] only (no loop at line 57).
TextIndexFirstOnly(kif) ==
  IF kif # <<>> /\ kif[1].fd_fd = KERN_FILE_TEXT THEN 1 ELSE 0

\* Lines 57-58: the record the scan stops at, 1-based; 0 when the scan ends
\* without reaching a text record.
TextIndex(kif) ==
  LET found == {i \in 1..Len(kif) : /\ kif[i].fd_fd = KERN_FILE_TEXT
                                    /\ \A j \in 1..i : kif[j].fd_fd < 0}
  IN IF found = {} THEN 0 ELSE CHOOSE i \in found : \A j \in found : i <= j

\* FsCheck without the comparison of device and inode at line 64.
FsCheckIgnoresIdentity(disk, exe, rec) ==
  LET st == stat(disk, exe)
      rp == realpath(disk, exe)
  IN IF st.err # 0 THEN [res |-> "", err |-> st.err]
     ELSE IF ~ModeAnd(st.node.st_mode, S_IXUSR) \/ ~ModeAnd(st.node.st_mode, S_IFREG)
     THEN [res |-> "", err |-> 0]
     ELSE IF rp.err # 0 THEN [res |-> "", err |-> rp.err]
     ELSE [res |-> rp.path, err |-> 0]

\* FsCheck with res = exe in place of res = buffer at line 65.
FsCheckReturnsCandidate(disk, exe, rec) ==
  LET st == stat(disk, exe)
      rp == realpath(disk, exe)
  IN IF st.err # 0 THEN [res |-> "", err |-> st.err]
     ELSE IF ~ModeAnd(st.node.st_mode, S_IXUSR) \/ ~ModeAnd(st.node.st_mode, S_IFREG)
     THEN [res |-> "", err |-> 0]
     ELSE IF rp.err # 0 THEN [res |-> "", err |-> rp.err]
     ELSE IF st.node.st_dev = rec.va_fsid /\ st.node.st_ino = rec.va_fileid
     THEN [res |-> exe, err |-> 0]
     ELSE [res |-> "", err |-> 0]

\* Lines 62-66: the filesystem check of candidate exe against record rec.
\* res: what is assigned to res ("" when nothing is); err: the errno a failing
\* system call leaves (0 when none failed).
FsCheck(disk, exe, rec) ==
  LET st == stat(disk, exe)
      rp == realpath(disk, exe)
  IN IF st.err # 0 THEN [res |-> "", err |-> st.err]
     ELSE IF ~ModeAnd(st.node.st_mode, S_IXUSR) \/ ~ModeAnd(st.node.st_mode, S_IFREG)
     THEN [res |-> "", err |-> 0]
     ELSE IF rp.err # 0 THEN [res |-> "", err |-> rp.err]
     ELSE IF st.node.st_dev = rec.va_fsid /\ st.node.st_ino = rec.va_fileid
     THEN [res |-> rp.path, err |-> 0]
     ELSE [res |-> "", err |-> 0]

\* Lines 69-71: the candidate with its last component replaced by p_comm
\* ("" when the candidate holds no '/': no retry).
Substitute(exe, comm) ==
  LET last_slash_pos == find_last_of(exe, "/")
  IN IF last_slash_pos # npos THEN substr(exe, 0, last_slash_pos + 1) \o comm ELSE ""

\* path = is_exe(argv0): the call, as made at lines 114, 123, 127, 146, 152.
\* The history notes the candidate, the stage that built it ("abs", "path",
\* "list", "pwd" or "cwd"), the buffer[0] it was built from and the attempt
\* (0: the first, 1: the one restarted from `_`).
CallIsExe(exe, ret, stage, made) ==
  /\ v' = VLocals(exe, ret)
  /\ probes' = Append(probes, [exe |-> exe, stage |-> stage, name |-> g.buffer[1],
                               attempt |-> gotos.fallback])
  /\ gotos' = [made EXCEPT !.v_fallback = 0]
  /\ pc' = "ie_open"

\* IsExeOpen returning at once, without kvm_close, when kvm_getfiles fails.
IsExeOpenLeaks ==
  /\ pc = "ie_open"
  /\ steps' = steps + 1
  /\ UNCHANGED <<env, double_close, probes, gotos, entry_errno, results>>
  /\ IF env.kvm # "ok"
     THEN /\ errno' = ENOMEM
          /\ g' = [g EXCEPT !.path = v.res]
          /\ pc' = v.ret
          /\ UNCHANGED <<v, handles>>
     ELSE /\ handles' = handles + 1
          /\ IF ~env.getfiles
             THEN /\ errno' = ENOMEM
                  /\ v' = [v EXCEPT !.kd = "open"]
                  /\ g' = [g EXCEPT !.path = v.res]
                  /\ pc' = v.ret
             ELSE /\ v' = [v EXCEPT !.kd = "open", !.i = TextIndex(env.kif)]
                  /\ pc' = IF TextIndex(env.kif) # 0 THEN "ie_check" ELSE "ie_close"
                  /\ UNCHANGED <<errno, g>>

\* Lines 54-58: open the kernel handle, fetch the file records, find the text
\* record.
IsExeOpen ==
  /\ pc = "ie_open"
  /\ steps' = steps + 1
  /\ UNCHANGED <<env, double_close, probes, gotos, entry_errno, results>>
  /\ IF env.kvm # "ok"
     THEN /\ errno' = ENOMEM
          /\ g' = [g EXCEPT !.path = v.res]
          /\ pc' = v.ret
          /\ UNCHANGED <<v, handles>>
     ELSE /\ handles' = handles + 1
          /\ IF ~env.getfiles
             THEN /\ errno' = ENOMEM
                  /\ v' = [v EXCEPT !.kd = "open"]
                  /\ pc' = "ie_close"
             ELSE /\ v' = [v EXCEPT !.kd = "open", !.i = TextIndex(env.kif)]
                  /\ pc' = IF TextIndex(env.kif) # 0 THEN "ie_check" ELSE "ie_close"
                  /\ UNCHANGED errno
          /\ UNCHANGED g

\* IsExeCheck without error = true at line 68.
IsExeCheckForgetsFlag ==
  /\ pc = "ie_check"
  /\ steps' = steps + 1
  /\ UNCHANGED <<env, g, handles, double_close, probes, entry_errno, results>>
  /\ LET chk == FsCheck(env.disk, v.exe, env.kif[v.i])
         sub == Substitute(v.exe, env.kif[v.i].p_comm)
     IN /\ errno' = IF chk.err # 0 THEN chk.err ELSE errno
        /\ IF chk.res = "" /\ ~v.error /\ sub # ""
           THEN /\ v' = [v EXCEPT !.exe = sub, !.checks = @ + 1]
                /\ gotos' = [gotos EXCEPT !.v_fallback = @ + 1]
                /\ pc' = "ie_check"
           ELSE /\ v' = [v EXCEPT !.res = chk.res, !.checks = @ + 1]
                /\ pc' = "ie_close"
                /\ UNCHANGED gotos

\* Lines 60-75: check the candidate; on the first failure retry with the
\* process name in place of the last component (goto fallback).
IsExeCheck ==
  /\ pc = "ie_check"
  /\ steps' = steps + 1
  /\ UNCHANGED <<env, g, handles, double_close, probes, entry_errno, results>>
  /\ LET chk == FsCheck(env.disk, v.exe, env.kif[v.i])
         sub == Substitute(v.exe, env.kif[v.i].p_comm)
     IN /\ errno' = IF chk.err # 0 THEN chk.err ELSE errno
        /\ IF chk.res = "" /\ ~v.error /\ sub # ""
           THEN /\ v' = [v EXCEPT !.error = TRUE, !.exe = sub, !.checks = @ + 1]
                /\ gotos' = [gotos EXCEPT !.v_fallback = @ + 1]
                /\ pc' = "ie_check"
           ELSE /\ v' = [v EXCEPT !.res = chk.res, !.checks = @ + 1,
                                  !.error = (@ \/ chk.res = "")]
                /\ pc' = "ie_close"
                /\ UNCHANGED gotos

\* Lines 79-80: close the handle and return res to the caller's path.
IsExeClose ==
  /\ pc = "ie_close"
  /\ steps' = steps + 1
  /\ UNCHANGED <<env, errno, probes, gotos, entry_errno, results>>
  /\ handles' = handles - 1
  /\ double_close' = (double_close \/ v.kd # "open")
  /\ v' = [v EXCEPT !.kd = "closed"]
  /\ g' = [g EXCEPT !.path = v.res]
  /\ pc' = v.ret

\* ------------------------------------------------- GetExecutableDirectory

\* Line 134: the hardcoded directory list.
FallbackList == "/usr/bin:/bin:/usr/sbin:/sbin:/usr/X11R6/bin:/usr/local/bin:/usr/local/sbin"

\* FallbackPenv with <home>/bin appended to the list.
FallbackPenvHomeLast(home) ==
  IF home # "" THEN FallbackList \o ":" \o home \o "/bin" ELSE FallbackList

\* Lines 134-138: the list searched on the retry.
FallbackPenv(home) == IF home # "" THEN home \o "/bin:" \o FallbackList ELSE FallbackList

\* Truncate cutting at the last '/' (substr(0, pos)).
TruncateDropsSlash(path) ==
  LET pos == find_last_of(path, "/")
  IN IF pos # npos THEN substr(path, 0, pos) ELSE path

\* Lines 170-173: the path cut just after its last '/'.
Truncate(path) ==
  LET pos == find_last_of(path, "/")
  IN IF pos # npos THEN substr(path, 0, pos + 1) ELSE path

\* What a return of GetExecutableDirectory leaves: the returned string, the
\* locals and errno at that moment (exe: the last candidate the verifier
\* checked), and the call's history.
Returned(ret, locals, e, h) ==
  [ret |-> ret, path |-> locals.path, argv0 |-> locals.argv0, buffer |-> locals.buffer,
   exe |-> v.exe, errno |-> e, errno0 |-> entry_errno, handles |-> h, probes |-> probes, gotos |-> gotos]

\* Call with the flags error and retried kept from the previous call (as
\* static locals would be).
CallKeepsFlags ==
  /\ pc = "idle"
  /\ Len(results) < MaxCalls
  /\ UNCHANGED <<env, v, double_close>>
  /\ probes' = <<>>
  /\ gotos' = NoGotos
  /\ steps' = 1
  /\ entry_errno' = errno
  /\ IF env.kvm = "fails"
     THEN /\ errno' = ENOMEM
          /\ g' = GLocals
          /\ results' = Append(results,
                 [Returned("", GLocals, ENOMEM, handles)
                    EXCEPT !.probes = <<>>, !.gotos = NoGotos, !.errno0 = errno])
          /\ pc' = "idle"
          /\ UNCHANGED handles
     ELSE /\ g' = [GLocals EXCEPT !.kd = "open", !.error = g.error, !.retried = g.retried]
          /\ handles' = handles + 1
          /\ pc' = "getargs"
          /\ UNCHANGED <<errno, results>>

\* Lines 46-96: enter, declare the locals, open the kernel handle; return the
\* empty path if it does not open.
Call ==
  /\ pc = "idle"
  /\ Len(results) < MaxCalls
  /\ UNCHANGED <<env, v, double_close>>
  /\ probes' = <<>>
  /\ gotos' = NoGotos
  /\ steps' = 1
  /\ entry_errno' = errno
  /\ IF env.kvm = "fails"
     THEN /\ errno' = ENOMEM
          /\ g' = GLocals
          /\ results' = Append(results,
                 [Returned("", GLocals, ENOMEM, handles)
                    EXCEPT !.probes = <<>>, !.gotos = NoGotos, !.errno0 = errno])
          /\ pc' = "idle"
          /\ UNCHANGED handles
     ELSE /\ g' = [GLocals EXCEPT !.kd = "open"]
          /\ handles' = handles + 1
          /\ pc' = "getargs"
          /\ UNCHANGED <<errno, results>>

\* Lines 97-108: fetch the argument vector, close the handle, look at argv[0].
GetArgs ==
  /\ pc = "getargs"
  /\ steps' = steps + 1
  /\ UNCHANGED <<env, v, probes, gotos, entry_errno, results>>
  /\ LET buffer == IF env.getprocs THEN env.argv ELSE <<>>
     IN /\ errno' = IF env.getprocs THEN errno ELSE ENOMEM
        /\ handles' = handles - 1
        /\ double_close' = (double_close \/ g.kd # "open")
        /\ g' = [g EXCEPT !.buffer = buffer, !.kd = "closed"]
        /\ pc' = IF buffer = <<>> THEN "finish"
                 ELSE IF buffer[1] = "" THEN "underscore"
                 ELSE "classify"

\* Lines 109-117 (label fallback): classify buffer[0]; verify an absolute one,
\* read PATH for a bare one.
Classify ==
  /\ pc = "classify"
  /\ steps' = steps + 1
  /\ UNCHANGED <<env, errno, handles, double_close, entry_errno, results>>
  /\ LET slash_pos == find(g.buffer[1], "/")
         colon_pos == find(g.buffer[1], ":")
         penv == cppstr_getenv("PATH")
         g1 == [g EXCEPT !.slash_pos = slash_pos, !.colon_pos = colon_pos]
     IN IF slash_pos = 0
        THEN /\ g' = [g1 EXCEPT !.argv0 = g.buffer[1]]
             /\ CallIsExe(g.buffer[1], "relative", "abs", gotos)
        ELSE IF slash_pos = npos \/ slash_pos > colon_pos
        THEN /\ g' = [g1 EXCEPT !.penv = penv, !.sstr = penv, !.eof = FALSE, !.stage = "path"]
             /\ pc' = IF penv # "" THEN "path_loop" ELSE "path_done"
             /\ UNCHANGED <<v, probes, gotos>>
        ELSE /\ g' = g1
             /\ pc' = "relative"
             /\ UNCHANGED <<v, probes, gotos>>

\* Lines 121-123: the next directory of penv, joined with buffer[0].
PathLoop ==
  /\ pc = "path_loop"
  /\ steps' = steps + 1
  /\ UNCHANGED <<env, errno, handles, double_close, entry_errno, results>>
  /\ LET line == getline(g.sstr, g.eof)
         argv0 == line.tmp \o "/" \o g.buffer[1]
     IN IF line.ok
        THEN /\ g' = [g EXCEPT !.sstr = line.rest, !.eof = line.eof, !.tmp = line.tmp,
                               !.argv0 = argv0]
             /\ CallIsExe(argv0, "path_hit1", g.stage, gotos)
        ELSE /\ g' = [g EXCEPT !.sstr = line.rest, !.eof = line.eof]
             /\ pc' = "path_done"
             /\ UNCHANGED <<v, probes, gotos>>

\* PathHit1 without the break at line 124.
PathHit1NoBreak ==
  /\ pc = "path_hit1"
  /\ steps' = steps + 1
  /\ UNCHANGED <<env, errno, handles, double_close, entry_errno, results>>
  /\ IF g.slash_pos > g.colon_pos
     THEN LET argv0 == g.tmp \o "/" \o substr(g.buffer[1], 0, g.colon_pos)
          IN /\ g' = [g EXCEPT !.argv0 = argv0]
             /\ CallIsExe(argv0, "path_hit2", g.stage, gotos)
     ELSE /\ pc' = "path_loop"
          /\ UNCHANGED <<g, v, probes, gotos>>

\* Lines 124-127: stop at a hit; else try the part of buffer[0] before ':'.
PathHit1 ==
  /\ pc = "path_hit1"
  /\ steps' = steps + 1
  /\ UNCHANGED <<env, errno, handles, double_close, entry_errno, results>>
  /\ IF g.path # ""
     THEN /\ pc' = "path_done"
          /\ UNCHANGED <<g, v, probes, gotos>>
     ELSE IF g.slash_pos > g.colon_pos
     THEN LET argv0 == g.tmp \o "/" \o substr(g.buffer[1], 0, g.colon_pos)
          IN /\ g' = [g EXCEPT !.argv0 = argv0]
             /\ CallIsExe(argv0, "path_hit2", g.stage, gotos)
     ELSE /\ pc' = "path_loop"
          /\ UNCHANGED <<g, v, probes, gotos>>

\* Line 128: stop at a hit.
PathHit2 ==
  /\ pc = "path_hit2"
  /\ steps' = steps + 1
  /\ UNCHANGED <<env, g, v, errno, handles, double_close, probes, gotos, entry_errno, results>>
  /\ pc' = IF g.path # "" THEN "path_done" ELSE "path_loop"

\* PathDone without retried = true at line 133.
PathDoneForgetsFlag ==
  /\ pc = "path_done"
  /\ steps' = steps + 1
  /\ UNCHANGED <<env, v, errno, handles, double_close, probes, entry_errno, results>>
  /\ IF g.path = "" /\ ~g.retried
     THEN LET penv == FallbackPenv(cppstr_getenv("HOME"))
          IN /\ g' = [g EXCEPT !.penv = penv, !.sstr = penv, !.eof = FALSE, !.stage = "list"]
             /\ gotos' = [gotos EXCEPT !.retry = @ + 1]
             /\ pc' = "path_loop"
     ELSE /\ pc' = "relative"
          /\ UNCHANGED <<g, gotos>>

\* PathDone without path.empty() at line 132.
PathDoneIgnoresPath ==
  /\ pc = "path_done"
  /\ steps' = steps + 1
  /\ UNCHANGED <<env, v, errno, handles, double_close, probes, entry_errno, results>>
  /\ IF ~g.retried
     THEN LET penv == FallbackPenv(cppstr_getenv("HOME"))
          IN /\ g' = [g EXCEPT !.retried = TRUE, !.penv = penv, !.sstr = penv, !.eof = FALSE,
                               !.stage = "list"]
             /\ gotos' = [gotos EXCEPT !.retry = @ + 1]
             /\ pc' = "path_loop"
     ELSE /\ pc' = "relative"
          /\ UNCHANGED <<g, gotos>>

\* Lines 132-141: after the search of penv; once, search the hardcoded list.
PathDone ==
  /\ pc = "path_done"
  /\ steps' = steps + 1
  /\ UNCHANGED <<env, v, errno, handles, double_close, probes, entry_errno, results>>
  /\ IF g.path = "" /\ ~g.retried
     THEN LET penv == FallbackPenv(cppstr_getenv("HOME"))
          IN /\ g' = [g EXCEPT !.retried = TRUE, !.penv = penv, !.sstr = penv, !.eof = FALSE,
                               !.stage = "list"]
             /\ gotos' = [gotos EXCEPT !.retry = @ + 1]
             /\ pc' = "path_loop"
     ELSE /\ pc' = "relative"
          /\ UNCHANGED <<g, gotos>>

\* Relative without slash_pos > 0 at line 142.
RelativeIgnoresSlash ==
  /\ pc = "relative"
  /\ steps' = steps + 1
  /\ UNCHANGED <<env, errno, handles, double_close, entry_errno, results>>
  /\ IF g.path = ""
     THEN LET pwd == cppstr_getenv("PWD")
              argv0 == pwd \o "/" \o g.buffer[1]
          IN IF pwd # ""
             THEN /\ g' = [g EXCEPT !.argv0 = argv0]
                  /\ CallIsExe(argv0, "cwd", "pwd", gotos)
             ELSE /\ pc' = "cwd"
                  /\ UNCHANGED <<g, v, probes, gotos>>
     ELSE /\ pc' = "underscore"
          /\ UNCHANGED <<g, v, probes, gotos>>

\* Lines 142-147: with no path yet and buffer[0] not absolute, try PWD.
Relative ==
  /\ pc = "relative"
  /\ steps' = steps + 1
  /\ UNCHANGED <<env, errno, handles, double_close, entry_errno, results>>
  /\ IF g.path = "" /\ g.slash_pos > 0
     THEN LET pwd == cppstr_getenv("PWD")
              argv0 == pwd \o "/" \o g.buffer[1]
          IN IF pwd # ""
             THEN /\ g' = [g EXCEPT !.argv0 = argv0]
                  /\ CallIsExe(argv0, "cwd", "pwd", gotos)
             ELSE /\ pc' = "cwd"
                  /\ UNCHANGED <<g, v, probes, gotos>>
     ELSE /\ pc' = "underscore"
          /\ UNCHANGED <<g, v, probes, gotos>>

\* Cwd without path.empty() at line 148.
CwdIgnoresPath ==
  /\ pc = "cwd"
  /\ steps' = steps + 1
  /\ UNCHANGED <<env, handles, double_close, entry_errno, results>>
  /\ IF env.getcwd
     THEN LET argv0 == CWD \o "/" \o g.buffer[1]
          IN /\ g' = [g EXCEPT !.argv0 = argv0]
             /\ CallIsExe(argv0, "underscore", "cwd", [gotos EXCEPT !.getcwd = @ + 1])
             /\ UNCHANGED errno
     ELSE /\ errno' = ENOENT
          /\ gotos' = [gotos EXCEPT !.getcwd = @ + 1]
          /\ pc' = "underscore"
          /\ UNCHANGED <<g, v, probes>>

\* Lines 148-155: with no path yet, try the working directory.
Cwd ==
  /\ pc = "cwd"
  /\ steps' = steps + 1
  /\ UNCHANGED <<env, handles, double_close, entry_errno, results>>
  /\ IF g.path = "" /\ env.getcwd
     THEN LET argv0 == CWD \o "/" \o g.buffer[1]
          IN /\ g' = [g EXCEPT !.argv0 = argv0]
             /\ CallIsExe(argv0, "underscore", "cwd", [gotos EXCEPT !.getcwd = @ + 1])
             /\ UNCHANGED errno
     ELSE /\ errno' = IF g.path = "" THEN ENOENT ELSE errno
          /\ gotos' = IF g.path = "" THEN [gotos EXCEPT !.getcwd = @ + 1] ELSE gotos
          /\ pc' = "underscore"
          /\ UNCHANGED <<g, v, probes>>

\* Underscore without error = true at line 158.
UnderscoreForgetsFlag ==
  /\ pc = "underscore"
  /\ steps' = steps + 1
  /\ UNCHANGED <<env, v, errno, handles, double_close, probes, entry_errno, results>>
  /\ IF g.path = "" /\ ~g.error
     THEN LET underscore == cppstr_getenv("_")
          IN IF underscore # ""
             THEN /\ g' = [g EXCEPT !.buffer = <<underscore>>]
                  /\ gotos' = [gotos EXCEPT !.fallback = @ + 1, !.getenv_uscore = @ + 1]
                  /\ pc' = "classify"
             ELSE /\ g' = [g EXCEPT !.buffer = <<>>]
                  /\ gotos' = [gotos EXCEPT !.getenv_uscore = @ + 1]
                  /\ pc' = "finish"
     ELSE /\ pc' = "finish"
          /\ UNCHANGED <<g, gotos>>

\* Underscore with retried = false before the goto at line 163.
UnderscoreResetsRetried ==
  /\ pc = "underscore"
  /\ steps' = steps + 1
  /\ UNCHANGED <<env, v, errno, handles, double_close, probes, entry_errno, results>>
  /\ IF g.path = "" /\ ~g.error
     THEN LET underscore == cppstr_getenv("_")
          IN IF underscore # ""
             THEN /\ g' = [g EXCEPT !.error = TRUE, !.retried = FALSE, !.buffer = <<underscore>>]
                  /\ gotos' = [gotos EXCEPT !.fallback = @ + 1, !.getenv_uscore = @ + 1]
                  /\ pc' = "classify"
             ELSE /\ g' = [g EXCEPT !.error = TRUE, !.buffer = <<>>]
                  /\ gotos' = [gotos EXCEPT !.getenv_uscore = @ + 1]
                  /\ pc' = "finish"
     ELSE /\ pc' = "finish"
          /\ UNCHANGED <<g, gotos>>

\* Lines 157-166: once, restart with buffer[0] taken from `_`.
Underscore ==
  /\ pc = "underscore"
  /\ steps' = steps + 1
  /\ UNCHANGED <<env, v, errno, handles, double_close, probes, entry_errno, results>>
  /\ IF g.path = "" /\ ~g.error
     THEN LET underscore == cppstr_getenv("_")
          IN IF underscore # ""
             THEN /\ g' = [g EXCEPT !.error = TRUE, !.buffer = <<underscore>>]
                  /\ gotos' = [gotos EXCEPT !.fallback = @ + 1, !.getenv_uscore = @ + 1]
                  /\ pc' = "classify"
             ELSE /\ g' = [g EXCEPT !.error = TRUE, !.buffer = <<>>]
                  /\ gotos' = [gotos EXCEPT !.getenv_uscore = @ + 1]
                  /\ pc' = "finish"
     ELSE /\ pc' = "finish"
          /\ UNCHANGED <<g, gotos>>

\* Finish clearing errno whatever the path (line 168 without line 167).
FinishClearsErrno ==
  /\ pc = "finish"
  /\ steps' = steps + 1
  /\ UNCHANGED <<env, v, handles, double_close, probes, gotos, entry_errno>>
  /\ errno' = 0
  /\ results' = Append(results, Returned(Truncate(g.path), g, errno', handles))
  /\ g' = [g EXCEPT !.path = Truncate(g.path)]
  /\ pc' = "idle"

\* Finish without lines 167-169.
FinishKeepsErrno ==
  /\ pc = "finish"
  /\ steps' = steps + 1
  /\ UNCHANGED <<env, v, handles, double_close, probes, gotos, entry_errno>>
  /\ errno' = errno
  /\ results' = Append(results, Returned(Truncate(g.path), g, errno', handles))
  /\ g' = [g EXCEPT !.path = Truncate(g.path)]
  /\ pc' = "idle"

\* Lines 167-174: clear errno on success, cut the path after its last '/',
\* return it.
Finish ==
  /\ pc = "finish"
  /\ steps' = steps + 1
  /\ UNCHANGED <<env, v, handles, double_close, probes, gotos, entry_errno>>
  /\ errno' = IF g.path # "" THEN 0 ELSE errno
  /\ results' = Append(results, Returned(Truncate(g.path), g, errno', handles))
  /\ g' = [g EXCEPT !.path = Truncate(g.path)]
  /\ pc' = "idle"

\* ---------------------------------------------------------- specification

Next ==
  \/ Call
  \/ GetArgs
  \/ Classify
  \/ PathLoop
  \/ PathHit1
  \/ PathHit2
  \/ PathDone
  \/ Relative
  \/ Cwd
  \/ Underscore
  \/ Finish
  \/ IsExeOpen
  \/ IsExeCheck
  \/ IsExeClose

Spec == Init /\ [][Next]_vars

\* ------------------------------------------------- vocabulary of the claims

\* The records of the finished calls.
Finished == {results[k] : k \in 1..Len(results)}

\* The argv[0] the kernel reports, when it reports one.
HasArgv0 == env.getprocs /\ env.argv # <<>>
Argv0 == env.argv[1]

\* The kernel queries of the verifier succeed and its scan reaches a text
\* record, so that every candidate gets its filesystem check.
VerifierChecks == env.kvm = "ok" /\ env.getfiles /\ TextIndex(env.kif) # 0

\* The file type bits of st_mode say "regular file".
IsRegular(mode) == mode \cap {12, 13, 14, 15} = {15}

\* The file named p is the one the kernel records as the text segment.
SameFileAsText(p) ==
  LET f == Lookup(env.disk, p)
  IN /\ f.err = 0
     /\ \E i \in 1..Len(env.kif) :
          /\ env.kif[i].fd_fd = KERN_FILE_TEXT
          /\ f.node.st_dev = env.kif[i].va_fsid
          /\ f.node.st_ino = env.kif[i].va_fileid

\* Path p passes verification: it exists, is a regular user-executable file,
\* canonicalizes, and is the text segment's file.
Verifies(p) ==
  LET f == Lookup(env.disk, p)
  IN /\ f.err = 0
     /\ f.node.kind = "file"
     /\ IsRegular(f.node.st_mode)
     /\ 6 \in f.node.st_mode
     /\ SameFileAsText(p)

\* The canonical path of p.
Canonical(p) == Lookup(env.disk, p).path

\* The directory component of a path: up to and including its last '/'.
DirOf(p) == SubSeq(p, 1, find_last_of(p, "/") + 1)

\* ------------------------------------------------------------------- C1

\* A call whose argv[0] is absolute and passes verification.
C1_Case(r) ==
  /\ HasArgv0 /\ VerifierChecks
  /\ Argv0 # "" /\ At(Argv0, 0) = "/"
  /\ Verifies(Argv0)

\* C1 as stated: when argv[0] begins with '/' and passes verification, the
\* call returns the directory component of argv[0] itself.
C1_Original ==
  \A r \in Finished : C1_Case(r) => r.ret = DirOf(Argv0)

\* C1 amended: when argv[0] begins with '/' and passes verification, the call
\* returns the directory component of the canonical path of argv[0] (which is
\* argv[0]'s own directory when argv[0] reaches the file through no symlink).
C1_CanonicalDirectory ==
  \A r \in Finished :
    C1_Case(r) => /\ r.ret = DirOf(Canonical(Argv0))
                  /\ (Canonical(Argv0) = Argv0 => r.ret = DirOf(Argv0))

\* C1 witness: a call returned for an absolute argv[0] that reaches the
\* binary through a symlink.
C1_Witness ==
  \E r \in Finished :
    /\ C1_Case(r) /\ Canonical(Argv0) # Argv0
    /\ r.ret = "/opt/app/"

\* ------------------------------------------------------------------- C2

Last(seq) == seq[Len(seq)]

\* The final component of a path.
BaseOf(p) == SubSeq(p, find_last_of(p, "/") + 2, Len(p))

\* A call that returned a hit of the PATH search for a bare argv[0].
C2_Case(r) ==
  /\ HasArgv0 /\ Argv0 # "" /\ find(Argv0, "/") = npos
  /\ r.ret # "" /\ r.gotos.fallback = 0
  /\ Last(r.probes).stage = "path"

\* C2 as stated: the returned directory joined with the command name names
\* the text segment's file.
C2_Original ==
  \A r \in Finished : C2_Case(r) => SameFileAsText(r.ret \o Argv0)

\* C2 amended: the returned directory joined with the final component of the
\* accepted candidate's canonical path names the text segment's file; that
\* component is the command name when the accepted candidate is
\* <dir>/<command name> itself (no substitution, no before-colon part) and
\* is its own canonical path (no symlink).
C2_DirectoryOfCanonicalHit ==
  \A r \in Finished :
    C2_Case(r) =>
      /\ SameFileAsText(r.ret \o BaseOf(Canonical(r.exe)))
      /\ (r.exe = DirOf(r.exe) \o Argv0 /\ Canonical(r.exe) = r.exe
            => SameFileAsText(r.ret \o Argv0))

\* C2 witness: a PATH hit on <dir>/<command name> itself.
C2_Witness ==
  \E r \in Finished :
    /\ C2_Case(r) /\ r.exe = "/usr/local/bin/app" /\ Argv0 = "app"
    /\ r.ret = "/usr/local/bin/" /\ Len(r.probes) = 2

\* ------------------------------------------------------------------- C3

\* p is the canonical path of a file that passes verification.
VerifiedPath(p) == Verifies(p) /\ Canonical(p) = p

\* C3: every non-empty verifier result, and every non-empty path of the
\* resolver, is the canonical path of an existing regular user-executable
\* file whose (device, inode) is the text record's; every non-empty return
\* value is such a path cut just after its last '/'.
C3_OnlyVerifiedPaths ==
  /\ v.res # "" => VerifiedPath(v.res)
  /\ (pc # "idle" /\ g.path # "") => VerifiedPath(g.path)
  /\ \A r \in Finished :
       r.ret # "" => /\ VerifiedPath(r.path)
                     /\ find_last_of(r.path, "/") # npos
                     /\ r.ret = SubSeq(r.path, 1, find_last_of(r.path, "/") + 1)

\* C3 witness: a result produced by the process-name substitution retry was
\* returned.
C3_Witness ==
  \E r \in Finished :
    /\ r.ret # "" /\ r.exe # r.argv0
    /\ v.res = r.path /\ v.error

\* ------------------------------------------------------------------- C4

HardcodedDirs == {"/usr/bin", "/bin", "/usr/sbin", "/sbin", "/usr/X11R6/bin",
                  "/usr/local/bin", "/usr/local/sbin"}
HomeBin == IF cppstr_getenv("HOME") # "" THEN {cppstr_getenv("HOME") \o "/bin"} ELSE {}

\* The names the call looks for in a directory: argv[0], its part before the
\* first ':', and the kernel's process name.
NamesTried ==
  {Argv0} \cup (IF find(Argv0, ":") # npos THEN {SubSeq(Argv0, 1, find(Argv0, ":"))} ELSE {})
          \cup {env.kif[i].p_comm : i \in 1..Len(env.kif)}

HoldsVerifying(dir) ==
  VerifierChecks /\ \E n \in NamesTried : Verifies(dir \o "/" \o n)

\* PATH and `_` unset, argv[0] bare, nothing verifying in the hardcoded
\* directories nor in <HOME>/bin.
C4_Case ==
  /\ HasArgv0 /\ Argv0 # "" /\ find(Argv0, "/") = npos
  /\ cppstr_getenv("PATH") = "" /\ cppstr_getenv("_") = ""
  /\ \A d \in HardcodedDirs \cup HomeBin : ~HoldsVerifying(d)

\* The directories of the PWD and getcwd candidates.
WorkDirs ==
  (IF cppstr_getenv("PWD") # "" THEN {cppstr_getenv("PWD")} ELSE {})
    \cup (IF env.getcwd THEN {CWD} ELSE {})

\* A system call failed during call r, or errno was set when it began.
SomeCallFailed(r) ==
  \/ r.errno0 # 0
  \/ env.kvm # "ok" \/ ~env.getfiles \/ ~env.getprocs
  \/ VerifierChecks /\ \E i \in 1..Len(r.probes) : Lookup(env.disk, r.probes[i].exe).err # 0

C5_Original ==
  \A r \in Finished :
    (r.ret = "" /\ VerifierChecks /\ Len(r.probes) > 0) => r.errno # 0

\* ------------------------------------------------------------------- C6

\* C6: a call that returns a non-empty directory leaves errno = 0.
C6_ErrnoClearedOnSuccess ==
  /\ \A r \in Finished : r.ret # "" => r.errno = 0
  /\ (pc = "idle" /\ results # <<>> /\ Last(results).ret # "") => errno = 0

\* C6 witness: a call returned a directory after an earlier candidate of the
\* same call had failed in stat.
C6_Witness ==
  \E r \in Finished :
    /\ r.ret # "" /\ r.errno = 0 /\ VerifierChecks
    /\ \E i \in 1..Len(r.probes) : Lookup(env.disk, r.probes[i].exe).err = ENOENT

\* ------------------------------------------------------------------- C7

\* C7: successive calls in the same process, with the same filesystem,
\* environment and kernel records, return the same string (and probe the same
\* candidates in the same order).
C7_SameResultEveryCall ==
  \A i, j \in 1..Len(results) :
    /\ results[i].ret = results[j].ret
    /\ results[i].probes = results[j].probes

\* C7 witness: two calls returned a directory, the first having set both of
\* its flags (retried, error) and left an errno other than the one it found.
C7_Witness ==
  /\ Len(results) >= 2
  /\ results[1].ret # "" /\ results[2].ret = results[1].ret
  /\ results[1].gotos.retry = 1 /\ results[1].gotos.fallback = 1

\* ------------------------------------------------------------------- C8

IsPrefix(a, b) == Len(a) <= Len(b) /\ SubSeq(b, 1, Len(a)) = a

\* The candidates of the hardcoded search in the order claimed: <home>/bin
\* first when home is non-empty, then the seven directories; in each
\* directory the name, then (when a ':' precedes any '/') its part before ':'.
HardcodedOrder == <<"/usr/bin", "/bin", "/usr/sbin", "/sbin", "/usr/X11R6/bin",
                    "/usr/local/bin", "/usr/local/sbin">>
RECURSIVE CandidatesIn(_, _)
CandidatesIn(dirs, name) ==
  IF dirs = <<>> THEN <<>>
  ELSE <<Head(dirs) \o "/" \o name>>
       \o (IF find(name, "/") > find(name, ":")
           THEN <<Head(dirs) \o "/" \o SubSeq(name, 1, find(name, ":"))>> ELSE <<>>)
       \o CandidatesIn(Tail(dirs), name)
ClaimedListCandidates(home, name) ==
  CandidatesIn((IF home # "" THEN <<home \o "/bin">> ELSE <<>>) \o HardcodedOrder, name)

IsListProbe(p) == p.stage = "list"
ListProbes(r) == SelectSeq(r.probes, IsListProbe)
Exes(ps) == [k \in 1..Len(ps) |-> ps[k].exe]

\* C8 as stated: whenever the hardcoded search runs, its candidates are, in
\* order, <HOME>/bin/<argv0> (when HOME is set and non-empty) and then those of
\* the seven directories in the listed order.
C8_Original ==
  \A r \in Finished :
    ListProbes(r) # <<>> =>
      IsPrefix(Exes(ListProbes(r)),
               ClaimedListCandidates(cppstr_getenv("HOME"), ListProbes(r)[1].name))

\* C8 amended: the same, for a HOME that is unset, empty or holds no ':' (a
\* HOME holding ':' is split into several directories like the rest of the
\* list, and <HOME>/bin is not probed).
C8_HomeBinThenListedOrder ==
  \A r \in Finished :
    (ListProbes(r) # <<>> /\ find(cppstr_getenv("HOME"), ":") = npos) =>
      IsPrefix(Exes(ListProbes(r)),
               ClaimedListCandidates(cppstr_getenv("HOME"), ListProbes(r)[1].name))

\* C8 witness: with HOME = /home/u the hardcoded search probed /home/u/bin
\* and then all seven directories.
C8_Witness ==
  \E r \in Finished :
    /\ cppstr_getenv("HOME") = "/home/u"
    /\ Len(ListProbes(r)) = 8
    /\ ListProbes(r)[1].exe = "/home/u/bin/app"
    /\ ListProbes(r)[8].exe = "/usr/local/sbin/app"

\* ------------------------------------------------------------------- C9

\* C9: a kernel handle is open only while the function that opened it runs
\* (lines 92-105 of GetExecutableDirectory, lines 54-79 of is_exe): never
\* more than one at a time, none between verifier calls, none at return, and
\* kvm_close is never called on a handle that is not open.
C9_HandlesClosed ==
  /\ handles \in {0, 1}
  /\ ~double_close
  /\ handles = 1 <=> pc \in {"getargs", "ie_check", "ie_close"}
  /\ pc = "getargs" => g.kd = "open"
  /\ pc \in {"ie_check", "ie_close"} => v.kd = "open"
  /\ pc \notin {"ie_check", "ie_close"} => v.kd # "open"
  /\ pc # "getargs" => g.kd # "open"
  /\ \A r \in Finished : r.handles = 0

\* C9 witness: a second call returned after ten verifier calls, the last of
\* which took its retry, with no handle open.
C9_Witness ==
  /\ Len(results) >= 2 /\ pc = "idle" /\ handles = 0
  /\ Len(Last(results).probes) >= 10
  /\ Last(results).gotos.v_fallback = 1

\* ------------------------------------------------------------------ C10

\* Every call the process makes has returned.
AllReturned == pc = "idle" /\ Len(results) = MaxCalls

\* The directories of a ':'-separated list.
NumDirs(penv) == IF penv = "" THEN 0 ELSE 1 + Cardinality({i \in 1..Len(penv) : SubSeq(penv, i, i) = ":"})

\* Verifier calls of one call of GetExecutableDirectory: in each of its two
\* attempts at most two per directory of PATH and of the hardcoded list, one
\* for PWD and one for the working directory.
MaxProbes ==
  2 * (2 * (NumDirs(cppstr_getenv("PATH")) + NumDirs(FallbackPenv(cppstr_getenv("HOME")))) + 2)

\* A step other than the verifier's check.
OtherStep ==
  \/ Call \/ GetArgs \/ Classify \/ PathLoop \/ PathHit1 \/ PathHit2 \/ PathDone
  \/ Relative \/ Cwd \/ Underscore \/ Finish \/ IsExeOpen \/ IsExeClose

\* C10: every call of GetExecutableDirectory returns: until it has, a step
\* can be taken (at "ie_check" the verifier's check, which has no other
\* guard), and the steps of a call are bounded, as each backward goto is
\* taken at most once (per is_exe call for the verifier's, per call of
\* GetExecutableDirectory for the other two) and the verifier calls of a call
\* are bounded by the lengths of PATH and of the hardcoded list.
C10_Terminates ==
  /\ AllReturned \/ pc = "ie_check" \/ ENABLED OtherStep
  /\ gotos.v_fallback <= 1 /\ gotos.retry <= 1 /\ gotos.fallback <= 1
  /\ Len(probes) <= MaxProbes
  /\ steps <= 7 * MaxProbes + 24

\* C10 witness: a call returned after taking all three backward gotos.
C10_Witness ==
  \E r \in Finished :
    r.gotos.v_fallback = 1 /\ r.gotos.retry = 1 /\ r.gotos.fallback = 1

\* ------------------------------------------------------------------ C11

\* The probes of a call made for the buffer[0] value `name`.
ProbesFor(ps, name) == SelectSeq(ps, LAMBDA p : p.name = name)

\* C11: in one call the restart from `_` is taken at most once and `_` is read
\* at most once; the restart is taken only with no verified path at hand and
\* with `_` set and non-empty; a call whose restarted attempt verified
\* nothing returns "".
C11_RestartAtMostOnce ==
  /\ gotos.fallback <= 1 /\ gotos.getenv_uscore <= 1
  /\ gotos.fallback = 1 =>
       /\ cppstr_getenv("_") # "" /\ gotos.getenv_uscore = 1 /\ g.error
       /\ pc = "classify" => (g.path = "" /\ g.buffer = <<cppstr_getenv("_")>>)
  /\ \A r \in Finished :
       /\ r.gotos.fallback <= 1 /\ r.gotos.getenv_uscore <= 1
       /\ r.gotos.fallback = 1 => cppstr_getenv("_") # ""
       /\ (r.gotos.fallback = 1 /\ r.path = "") => r.ret = ""

\* C11 witness: a call whose first attempt and whose restarted attempt both
\* passed candidates to the verifier in vain.
C11_Witness ==
  \E r \in Finished :
    /\ r.gotos.fallback = 1 /\ r.gotos.getenv_uscore = 1 /\ r.ret = ""
    /\ HasArgv0 /\ Argv0 # cppstr_getenv("_")
    /\ ProbesFor(r.probes, Argv0) # <<>>
    /\ ProbesFor(r.probes, cppstr_getenv("_")) # <<>>

\* ------------------------------------------------------------------ C12

\* The probes of attempt k of a call.
ProbesOf(ps, k) == SelectSeq(ps, LAMBDA p : p.attempt = k)

\* What is_exe returns for a candidate.
Accepted(exe) ==
  IF ~VerifierChecks THEN ""
  ELSE LET rec == env.kif[TextIndex(env.kif)]
           first == FsCheck(env.disk, exe, rec).res
           sub == Substitute(exe, rec.p_comm)
       IN IF first # "" THEN first
          ELSE IF sub # "" THEN FsCheck(env.disk, sub, rec).res ELSE ""

Hits(cands) == {i \in 1..Len(cands) : Accepted(cands[i]) # ""}

\* A sequence of candidates up to the first the verifier accepts.
UntilHit(cands) ==
  IF Hits(cands) = {} THEN cands
  ELSE SubSeq(cands, 1, CHOOSE i \in Hits(cands) : \A j \in Hits(cands) : i <= j)

\* The directories of a ':'-separated list, as getline reads them.
RECURSIVE Split(_, _)
Split(rest, eof) ==
  LET line == getline(rest, eof)
  IN IF line.ok THEN <<line.tmp>> \o Split(line.rest, line.eof) ELSE <<>>

\* A name searched in directories: without '/', or with a ':' before its
\* first '/'.
IsBare(name) == find(name, "/") = npos \/ find(name, "/") > find(name, ":")

\* The candidates a call generates for a non-empty argv[0] = name, up to the
\* first the verifier accepts; with_list: the hardcoded list is searched
\* when PATH gave nothing.
Search(name, with_list) ==
  LET P == UntilHit(CandidatesIn(Split(cppstr_getenv("PATH"), FALSE), name))
      L == IF with_list
           THEN UntilHit(CandidatesIn(Split(FallbackPenv(cppstr_getenv("HOME")), FALSE), name))
           ELSE <<>>
      W == UntilHit((IF cppstr_getenv("PWD") # ""
                     THEN <<cppstr_getenv("PWD") \o "/" \o name>> ELSE <<>>)
                    \o (IF env.getcwd THEN <<CWD \o "/" \o name>> ELSE <<>>))
  IN IF find(name, "/") = 0 THEN <<name>>
     ELSE IF ~IsBare(name) THEN W
     ELSE IF Hits(P) # {} THEN P
     ELSE IF Hits(L) # {} THEN P \o L
     ELSE P \o L \o W

\* The first attempt of the call searched the hardcoded list.
FirstSearchedList(r) == \E i \in 1..Len(r.probes) : r.probes[i].attempt = 0 /\ r.probes[i].stage = "list"

\* C12 as stated (here for a process whose kernel queries succeed): the
\* candidates of the attempt restarted from `_` are those a fresh call with
\* argv[0] = that value generates.
C12_Original ==
  \A r \in Finished :
    (pc = "idle" /\ VerifierChecks /\ r.gotos.fallback = 1) =>
      Exes(ProbesOf(r.probes, 1)) = Search(cppstr_getenv("_"), TRUE)

\* C12 amended: the first attempt of a call generates the candidates
\* Search(argv[0]); the attempt restarted from `_` generates those of a
\* fresh call for that value, without the search of the hardcoded list when
\* the first attempt has searched it already.
C12_FreshSearchButListOnce ==
  \A r \in Finished :
    pc = "idle" =>
      /\ (env.kvm # "fails" /\ HasArgv0 /\ Argv0 # "") =>
           Exes(ProbesOf(r.probes, 0)) = Search(Argv0, TRUE)
      /\ r.gotos.fallback = 1 =>
           Exes(ProbesOf(r.probes, 1)) = Search(cppstr_getenv("_"), ~FirstSearchedList(r))

\* C12 witness: a restarted attempt for a bare name that searched PATH and,
\* the list having been searched by the first attempt, went on to PWD.
C12_Witness ==
  \E r \in Finished :
    /\ r.gotos.fallback = 1 /\ FirstSearchedList(r)
    /\ IsBare(cppstr_getenv("_"))
    /\ \E i \in 1..Len(r.probes) : r.probes[i].attempt = 1 /\ r.probes[i].stage = "path"
    /\ \E i \in 1..Len(r.probes) : r.probes[i].attempt = 1 /\ r.probes[i].stage = "pwd"
    /\ Exes(ProbesOf(r.probes, 1)) # Search(cppstr_getenv("_"), TRUE)

\* ------------------------------------------------------------------ C13

\* The probes of stage st among ps.
StageProbes(ps, st) == SelectSeq(ps, LAMBDA p : p.stage = st)

\* In the probes ps of one call the hardcoded list is searched at most once,
\* and after a PATH search of the same attempt that verified nothing.
ListSearchedOnceAfterPath(ps, retries) ==
  LET list == StageProbes(ps, "list")
      first == CHOOSE i \in 1..Len(ps) : ps[i].stage = "list" /\ \A j \in 1..(i - 1) : ps[j].stage # "list"
      path == StageProbes(ProbesOf(ps, ps[first].attempt), "path")
  IN /\ retries <= 1
     /\ list # <<>> =>
          /\ retries = 1
          /\ \A j \in 1..Len(ps) :
               /\ ps[j].stage = "list" => ps[j].attempt = ps[first].attempt
               /\ (ps[j].stage = "path" /\ ps[j].attempt = ps[first].attempt) => j < first
          /\ IsPrefix(Exes(list),
                      CandidatesIn(Split(FallbackPenv(cppstr_getenv("HOME")), FALSE), ps[first].name))
          /\ Exes(path) = CandidatesIn(Split(cppstr_getenv("PATH"), FALSE), ps[first].name)
          /\ Hits(Exes(path)) = {}

\* C13: in one call, counting the first attempt and the one restarted from
\* `_`, the hardcoded list is searched at most once (one pass over its
\* directories, one goto retry), and only after the PATH search of the same
\* attempt went through all of PATH (nothing when PATH is unset or empty)
\* without a verified path.
C13_ListSearchedOnce ==
  /\ gotos.retry <= 1
  /\ pc \in {"path_loop", "finish"} => ListSearchedOnceAfterPath(probes, gotos.retry)
  /\ \A r \in Finished : pc = "idle" => ListSearchedOnceAfterPath(r.probes, r.gotos.retry)

\* C13 witness: a call with two attempts that both searched PATH, of which
\* only the first searched the hardcoded list.
C13_Witness ==
  \E r \in Finished :
    /\ r.gotos.fallback = 1 /\ r.gotos.retry = 1
    /\ StageProbes(ProbesOf(r.probes, 0), "path") # <<>>
    /\ StageProbes(ProbesOf(r.probes, 0), "list") # <<>>
    /\ StageProbes(ProbesOf(r.probes, 1), "path") # <<>>
    /\ StageProbes(ProbesOf(r.probes, 1), "list") = <<>>

\* ------------------------------------------------------------------ C14

\* The classes of a non-empty argv[0] value.
IsAbsolute(name) == find(name, "/") = 0
IsRelative(name) == ~IsAbsolute(name) /\ ~IsBare(name)

\* Candidate p is the name itself.
FromAbsolute(p) == p.stage = "abs" /\ p.exe = p.name

\* Candidate p is <dir>/<name> or <dir>/<part of name before ':'> for a
\* directory of PATH or of the fallback list.
FromDirectories(p) ==
  /\ p.stage \in {"path", "list"}
  /\ \E k \in 1..Len(CandidatesIn(Split(IF p.stage = "path" THEN cppstr_getenv("PATH")
                           ELSE FallbackPenv(cppstr_getenv("HOME")), FALSE), p.name)) :
       p.exe = CandidatesIn(Split(IF p.stage = "path" THEN cppstr_getenv("PATH")
                           ELSE FallbackPenv(cppstr_getenv("HOME")), FALSE), p.name)[k]

\* Candidate p is <PWD>/<name> or <cwd>/<name>.
FromWorkingDirectory(p) ==
  \/ p.stage = "pwd" /\ cppstr_getenv("PWD") # "" /\ p.exe = cppstr_getenv("PWD") \o "/" \o p.name
  \/ p.stage = "cwd" /\ env.getcwd /\ p.exe = CWD \o "/" \o p.name

C15_Original ==
  \A r \in Finished :
    (pc = "idle" /\ VerifierChecks /\ ~HasArgv0 /\ cppstr_getenv("_") # "") =>
      /\ r.gotos.getenv_uscore = 1 /\ r.gotos.fallback = 1
      /\ Exes(r.probes) = Search(cppstr_getenv("_"), TRUE)

\* ------------------------------------------------------------------ C16

\* The candidate given to the running verifier call, and what the
\* filesystem check makes of a path.
Given == Last(probes).exe
Checked(exe) == FsCheck(env.disk, exe, env.kif[TextIndex(env.kif)]).res

\* The candidate with its final component replaced by the kernel's process
\* name, the directory prefix (up to and including the last '/') kept.
WithProcessName(exe) == DirOf(exe) \o env.kif[TextIndex(env.kif)].p_comm

\* C16: a verifier call runs the filesystem check at most twice: first on
\* the candidate it was given; a second time exactly when the first check
\* gave nothing and the candidate holds a '/', and then on the candidate with
\* its final component replaced by the process name; the result is that of
\* the last check run (empty after a second failure).
C16_AtMostOneRetry ==
  /\ v.checks <= 2 /\ gotos.v_fallback <= 1
  /\ (pc = "ie_check" /\ v.checks = 0) => v.exe = Given
  /\ (pc = "ie_check" /\ v.checks = 1) =>
       /\ Checked(Given) = "" /\ find_last_of(Given, "/") # npos
       /\ v.exe = WithProcessName(Given) /\ gotos.v_fallback = 1
  /\ (pc = "ie_close" /\ v.checks = 1) =>
       /\ v.exe = Given /\ v.res = Checked(Given)
       /\ v.res # "" \/ find_last_of(Given, "/") = npos
  /\ (pc = "ie_close" /\ v.checks = 2) =>
       /\ Checked(Given) = "" /\ v.exe = WithProcessName(Given)
       /\ v.res = Checked(WithProcessName(Given))

\* C16 witness: a verifier call whose check failed on the candidate and
\* again on the candidate with the process name, returning empty.
C16_Witness ==
  /\ pc = "ie_close" /\ v.checks = 2 /\ v.res = ""
  /\ v.exe # Given /\ v.exe = "/usr/bin/real"

\* ------------------------------------------------------------------ C17

\* The kernel's list holds a text record; it holds one with none but
\* records of negative descriptor number before it.
HasText == \E i \in 1..Len(env.kif) : env.kif[i].fd_fd = KERN_FILE_TEXT
HasLeadingText ==
  \E i \in 1..Len(env.kif) :
    env.kif[i].fd_fd = KERN_FILE_TEXT /\ \A j \in 1..(i - 1) : env.kif[j].fd_fd < 0

\* A verifier call is about to return what it found, its queries having
\* succeeded.
VerifierReturns == pc = "ie_close" /\ env.kvm = "ok" /\ env.getfiles

\* C17 as stated: whenever the list holds a text record, wherever it stands,
\* a candidate that passes the four conditions is accepted.
C17_Original ==
  (VerifierReturns /\ HasText /\ Verifies(Given)) => v.res = Canonical(Given)

\* C17 amended: the text record is found and used when none but records of
\* negative descriptor number stand before it, and a candidate that passes
\* the four conditions is then accepted; when a record of non-negative
\* descriptor number stands before it the scan stops there, no filesystem
\* check is run and the verifier returns empty.
C17_TextRecordAmongLeading ==
  /\ (VerifierReturns /\ HasLeadingText /\ Verifies(Given)) => v.res = Canonical(Given)
  /\ (VerifierReturns /\ ~HasLeadingText) => (v.res = "" /\ v.checks = 0)

\* C17 witness: a candidate accepted against a text record that stands
\* second in the list, after the working-directory record.
C17_Witness ==
  /\ VerifierReturns /\ Verifies(Given) /\ v.res = Canonical(Given)
  /\ env.kif[1].fd_fd = KERN_FILE_CDIR /\ env.kif[2].fd_fd = KERN_FILE_TEXT

\* ------------------------------------------------------------------ C18

\* The searches of directories made in the probes ps of a call follow the
\* list: in each attempt the candidates of PATH, and those of the fallback
\* list, are <dir>/<name> and then (for a name with a ':' before any '/')
\* <dir>/<part before ':'>, directory by directory in list order, up to the
\* first candidate the verifier accepts; and that one is the call's last.
InListOrder(ps) ==
  /\ \A a \in {0, 1} :
       /\ StageProbes(ProbesOf(ps, a), "path") # <<>> =>
            Exes(StageProbes(ProbesOf(ps, a), "path")) =
              UntilHit(CandidatesIn(Split(cppstr_getenv("PATH"), FALSE),
                                    StageProbes(ProbesOf(ps, a), "path")[1].name))
       /\ StageProbes(ProbesOf(ps, a), "list") # <<>> =>
            Exes(StageProbes(ProbesOf(ps, a), "list")) =
              UntilHit(CandidatesIn(Split(FallbackPenv(cppstr_getenv("HOME")), FALSE),
                                    StageProbes(ProbesOf(ps, a), "list")[1].name))
  /\ \A i \in 1..Len(ps) :
       (ps[i].stage \in {"path", "list"} /\ Accepted(ps[i].exe) # "") => i = Len(ps)

\* C18: the searches of PATH and of the fallback list try the directories
\* in list order, <dir>/<argv0> before <dir>/<part before ':'> (generated
\* only for a ':' before any '/'), and the first verified hit ends the
\* search and gives the result. argv0 = app, PATH = /usr/bin:/usr/local/bin
\* and a match in /usr/local/bin only (the verifier accepts
\* /usr/local/bin/app as the binary, and nothing in /usr/bin) gives
\* /usr/local/bin/.
C18_FirstHitInListOrder ==
  pc = "finish" =>
    /\ InListOrder(probes)
    /\ (probes # <<>> /\ Last(probes).stage \in {"path", "list"} /\ Accepted(Last(probes).exe) # "")
         => Truncate(g.path) = DirOf(Accepted(Last(probes).exe))
    /\ (/\ env.kvm = "ok" /\ HasArgv0 /\ Argv0 = "app"
        /\ cppstr_getenv("PATH") = "/usr/bin:/usr/local/bin"
        /\ Accepted("/usr/bin/app") = ""
        /\ Accepted("/usr/local/bin/app") = "/usr/local/bin/app")
         => Truncate(g.path) = "/usr/local/bin/"

\* C18 witness: for argv0 = app:1 the search of PATH went through /usr/bin
\* and hit in /usr/local/bin on the part before ':', after the full name.
C18_Witness ==
  /\ pc = "finish"
  /\ Exes(probes) = <<"/usr/bin/app:1", "/usr/bin/app", "/usr/local/bin/app:1", "/usr/local/bin/app">>
  /\ Truncate(g.path) = "/usr/local/bin/"

\* ------------------------------------------------------------------ C19

\* The process was started with a relative argv[0] that holds a '/'.
C19_Case == env.kvm # "fails" /\ HasArgv0 /\ Argv0 # "" /\ IsRelative(Argv0)

PwdCandidate == cppstr_getenv("PWD") \o "/" \o Argv0
CwdCandidate == CWD \o "/" \o Argv0
PwdVerifies == cppstr_getenv("PWD") # "" /\ Accepted(PwdCandidate) # ""

\* C19: for a relative-with-slash argv[0] the first candidate is
\* <PWD>/<argv0> when PWD is set and non-empty; getcwd is called, and
\* <cwd>/<argv0> verified, only when PWD is unset or empty or that candidate
\* did not verify; when it verifies, the call returns the directory of its
\* canonical path without calling getcwd (argv0 = ./app, PWD = /home/u/proj
\* with the binary at /home/u/proj/app gives /home/u/proj/).
C19_PwdBeforeCwd ==
  (pc = "finish" /\ C19_Case) =>
    LET first == ProbesOf(probes, 0)
    IN /\ cppstr_getenv("PWD") # "" => (first # <<>> /\ first[1].exe = PwdCandidate /\ first[1].stage = "pwd")
       /\ \A i \in 1..Len(first) : first[i].stage \in {"pwd", "cwd"}
       /\ \A i \in 1..Len(first) :
            first[i].stage = "cwd" =>
              /\ first[i].exe = CwdCandidate /\ i = Len(first) /\ ~PwdVerifies
              /\ \A j \in 1..Len(first) : first[j].stage = "pwd" => j < i
       /\ PwdVerifies =>
            /\ first = probes /\ Len(first) = 1 /\ gotos.getcwd = 0
            /\ Truncate(g.path) = DirOf(Canonical(PwdCandidate))
       /\ ~PwdVerifies =>
            /\ gotos.getcwd >= 1
            /\ env.getcwd => (first # <<>> /\ Last(first).stage = "cwd")
       /\ (Argv0 = "./app" /\ cppstr_getenv("PWD") = "/home/u/proj"
             /\ Accepted("/home/u/proj/app") = "/home/u/proj/app")
            => Truncate(g.path) = "/home/u/proj/"

\* C19 witness: argv0 = ./app with PWD = /home/u/proj, where the binary is:
\* one candidate verified, no getcwd, /home/u/proj/ returned.
C19_Witness ==
  /\ pc = "finish" /\ C19_Case /\ Argv0 = "./app"
  /\ Exes(probes) = <<"/home/u/proj/./app">> /\ gotos.getcwd = 0
  /\ Truncate(g.path) = "/home/u/proj/"

====
